---- MODULE Spec2Model ----
(***************************************************************************)
(* A model of contrib/signet/getcoins.py: the PPM decoder (PPMImage), the  *)
(* braille renderer (print_image) and the module-level script that talks   *)
(* to the wallet, the captcha endpoint and the faucet.                     *)
(*                                                                         *)
(* Byte strings are sequences of byte values (0..255); Python lists and    *)
(* tuples are sequences, indexed from 0 in the source and from 1 here.     *)
(***************************************************************************)
EXTENDS Integers, Sequences, FiniteSets, TLC

VARIABLES
    \* ---- the script (module level of getcoins.py) ----
    pc,        \* position of the script
    args,      \* the parsed command line (args.captcha and args.addr are rewritten)
    data,      \* the form submitted to the faucet
    calls,     \* the external calls made so far, in order
    blockhash, \* what the wallet answered to getblockhash 1
    res,       \* the response of the claim POST
    stdout,    \* what was printed, in order
    raised,    \* the exception that ended the script, "none" if none
    stderr,    \* the message written for that exception
    exitcode,  \* the exit status of the process, -1 while it runs
    \* ---- the image functions ----
    ipc,       \* "raw", "decoded" or "used"
    tc,        \* the parts the buffer was put together from
    buf,       \* the byte buffer handed to PPMImage
    img,       \* the PPMImage object, or the exception of its constructor
    probe,     \* one getpixel call and its result
    shown      \* one print_image call and its result

runvars == <<pc, args, data, calls, blockhash, res, stdout, raised, stderr, exitcode>>
imgvars == <<ipc, tc, buf, img, probe, shown>>
vars == <<pc, args, data, calls, blockhash, res, stdout, raised, stderr, exitcode,
          ipc, tc, buf, img, probe, shown>>

\* Bounds of the image inputs.
MaxW == 3
MaxH == 5

(***************************************************************************)
(* Python primitives used by the image functions.                          *)
(***************************************************************************)
Max(a, b) == IF a >= b THEN a ELSE b
Min(a, b) == IF a <= b THEN a ELSE b

\* s[a:b] for 0 <= a, 0 <= b: the slice is cut at the end of s.
PySlice(s, a, b) == SubSeq(s, a + 1, Min(b, Len(s)))

\* s[i]: a negative index counts from the end; outside -len..len-1 is IndexError.
PyIndex(s, i) ==
    IF i >= 0 /\ i < Len(s) THEN [ok |-> TRUE, val |-> s[i + 1]]
    ELSE IF i < 0 /\ i >= 0 - Len(s) THEN [ok |-> TRUE, val |-> s[Len(s) + i + 1]]
    ELSE [ok |-> FALSE, val |-> <<>>]

\* f.readline(): up to and including the first newline, or all that is left.
RECURSIVE LineEnd(_, _)
LineEnd(s, i) ==
    IF i > Len(s) THEN Len(s)
    ELSE IF s[i] = 10 THEN i
    ELSE LineEnd(s, i + 1)

ReadLine(s) == SubSeq(s, 1, LineEnd(s, 1))
AfterLine(s) == SubSeq(s, LineEnd(s, 1) + 1, Len(s))

\* f.read(n): n bytes or what is left; everything when n is negative.
Read(s, n) == IF n < 0 THEN s ELSE SubSeq(s, 1, Min(n, Len(s)))

IsSpace(c) == c \in {9, 10, 11, 12, 13, 32}
IsDigit(c) == c >= 48 /\ c <= 57

RECURSIVE RStrip(_)
RStrip(s) ==
    IF Len(s) > 0 /\ IsSpace(s[Len(s)]) THEN RStrip(SubSeq(s, 1, Len(s) - 1)) ELSE s

RECURSIVE LStrip(_)
LStrip(s) ==
    IF Len(s) > 0 /\ IsSpace(s[1]) THEN LStrip(Tail(s)) ELSE s

\* bytes.split(b' '): every single space separates, empty tokens are kept.
RECURSIVE SplitSpace(_, _, _)
SplitSpace(s, i, cur) ==
    IF i > Len(s) THEN <<cur>>
    ELSE IF s[i] = 32 THEN <<cur>> \o SplitSpace(s, i + 1, <<>>)
    ELSE SplitSpace(s, i + 1, Append(cur, s[i]))

\* The digits of an int() literal: digits, single underscores between them.
RECURSIVE ParseDigits(_, _, _, _)
ParseDigits(s, i, acc, afterDigit) ==
    IF i > Len(s) THEN [ok |-> afterDigit, val |-> acc]
    ELSE IF IsDigit(s[i]) THEN ParseDigits(s, i + 1, 10 * acc + (s[i] - 48), TRUE)
    ELSE IF s[i] = 95 /\ afterDigit THEN ParseDigits(s, i + 1, acc, FALSE)
    ELSE [ok |-> FALSE, val |-> 0]

\* int(token) on bytes: surrounding whitespace, an optional sign, the digits.
PyInt(token) ==
    LET t == RStrip(LStrip(token))
        signed == Len(t) > 0 /\ t[1] \in {43, 45}
        d == IF signed THEN Tail(t) ELSE t
        p == ParseDigits(d, 1, 0, FALSE)
    IN  IF ~p.ok THEN [ok |-> FALSE, val |-> 0]
        ELSE IF signed /\ t[1] = 45 THEN [ok |-> TRUE, val |-> 0 - p.val]
        ELSE [ok |-> TRUE, val |-> p.val]

\* a | b on non-negative integers.
RECURSIVE BitOr(_, _)
BitOr(a, b) ==
    IF a = 0 THEN b
    ELSE IF b = 0 THEN a
    ELSE Max(a % 2, b % 2) + 2 * BitOr(a \div 2, b \div 2)

(***************************************************************************)
(* PPMImage                                                                *)
(***************************************************************************)
PPM_MAGIC == <<80, 54, 10>>          \* b'P6\n'
PPM_DEPTH == <<50, 53, 53, 10>>      \* b'255\n'

NoGrid == <<>>
NoImage == [state |-> "none", error |-> "", size |-> <<0, 0>>, grid |-> NoGrid]
PPMError(what) == [state |-> "ValueError", error |-> what, size |-> <<0, 0>>, grid |-> NoGrid]

\* The grid of PPMImage.__init__: one slice of three bytes per pixel.
BuildGrid(pixels, width, height) ==
    LET stride == width * 3
    IN  [y \in 1..height |->
            [x \in 1..width |->
                PySlice(pixels, stride * (y - 1) + 3 * (x - 1), stride * (y - 1) + 3 * x)]]

\* (width, height) = (int(x) for x in line.rstrip().split(b' '))
ParseSize(line) ==
    LET toks == SplitSpace(RStrip(line), 1, <<>>)
        n == Len(toks)
        \* the generator is consumed until two values and the end were seen
        seen == Min(n, 3)
    IN  IF \E i \in 1..seen : ~PyInt(toks[i]).ok THEN [ok |-> FALSE, w |-> 0, h |-> 0]
        ELSE IF n # 2 THEN [ok |-> FALSE, w |-> 0, h |-> 0]
        ELSE [ok |-> TRUE, w |-> PyInt(toks[1]).val, h |-> PyInt(toks[2]).val]

PPMImage(f) ==
    LET l1 == ReadLine(f)
        f1 == AfterLine(f)
        l2 == ReadLine(f1)
        f2 == AfterLine(f1)
        l3 == ReadLine(f2)
        f3 == AfterLine(f2)
        sz == ParseSize(l2)
    IN  IF l1 # PPM_MAGIC THEN PPMError("Invalid ppm format: header")
        ELSE IF ~sz.ok THEN PPMError("size")
        ELSE IF l3 # PPM_DEPTH THEN PPMError("Invalid ppm format: color depth")
        ELSE [state |-> "ok", error |-> "", size |-> <<sz.w, sz.h>>,
              grid |-> BuildGrid(Read(f3, sz.w * sz.h * 3), sz.w, sz.h)]

\* getpixel with the coordinates taken in the other order: self._grid[pos[0]][pos[1]]
getpixel_Transposed(image, pos) ==
    LET row == PyIndex(image.grid, pos[1])
    IN  IF ~row.ok THEN [ok |-> FALSE, val |-> <<>>]
        ELSE PyIndex(row.val, pos[2])

\* getpixel(pos): self._grid[pos[1]][pos[0]]
getpixel(image, pos) ==
    LET row == PyIndex(image.grid, pos[2])
    IN  IF ~row.ok THEN [ok |-> FALSE, val |-> <<>>]
        ELSE PyIndex(row.val, pos[1])

(***************************************************************************)
(* print_image                                                             *)
(***************************************************************************)
BASE == 10240                        \* 0x2800
BW == 2
BH == 4
\* The table with the last dot of the right column given the bit of the left one.
BIT_PER_PIXEL_Slip == << <<1, 8>>, <<2, 16>>, <<4, 32>>, <<64, 64>> >>
BIT_PER_PIXEL == << <<1, 8>>, <<2, 16>>, <<4, 32>>, <<64, 128>> >>
DEFAULT_THRESHOLD == 128

\* The two inner loops of print_image for block (xb, yb), from sub-pixel k on
\* (k = y * BW + x). getpixel's IndexError is swallowed; val[0] is evaluated
\* outside the try, so its IndexError is not.
RECURSIVE BlockChar(_, _, _, _, _, _)
BlockChar(image, threshold, xb, yb, k, ch) ==
    IF k >= BW * BH THEN [ok |-> TRUE, ch |-> ch]
    ELSE LET y == k \div BW
             x == k % BW
             r == getpixel(image, <<xb * BW + x, yb * BH + y>>)
         IN  IF ~r.ok THEN BlockChar(image, threshold, xb, yb, k + 1, ch)
             ELSE IF Len(r.val) = 0 THEN [ok |-> FALSE, ch |-> ch]
             ELSE IF r.val[1] < threshold
                  THEN BlockChar(image, threshold, xb, yb, k + 1,
                                 BitOr(ch, BIT_PER_PIXEL[y + 1][x + 1]))
                  ELSE BlockChar(image, threshold, xb, yb, k + 1, ch)

\* One line of blocks, from block xb on.
RECURSIVE BlockLine(_, _, _, _, _, _)
BlockLine(image, threshold, x_blocks, yb, xb, line) ==
    IF xb >= x_blocks THEN [ok |-> TRUE, line |-> line]
    ELSE LET c == BlockChar(image, threshold, xb, yb, 0, BASE)
         IN  IF ~c.ok THEN [ok |-> FALSE, line |-> line]
             ELSE BlockLine(image, threshold, x_blocks, yb, xb + 1, Append(line, c.ch))

\* The block count rounded down: img.size[0] // BW
XBlocks_Floor(image) == image.size[1] \div BW
XBlocks(image) == (image.size[1] + BW - 1) \div BW
YBlocks(image) == (image.size[2] + BH - 1) \div BH

\* The outer loop: one printed line per block row; an exception ends it.
RECURSIVE PrintRows(_, _, _, _)
PrintRows(image, threshold, yb, lines) ==
    IF yb >= YBlocks(image) THEN [raised |-> "none", lines |-> lines]
    ELSE LET l == BlockLine(image, threshold, XBlocks(image), yb, 0, <<>>)
         IN  IF ~l.ok THEN [raised |-> "IndexError", lines |-> lines]
             ELSE PrintRows(image, threshold, yb + 1, Append(lines, l.line))

print_image(image, threshold) == PrintRows(image, threshold, 0, <<>>)

(***************************************************************************)
(* The image inputs: buffers put together from a first line, a size line,  *)
(* a depth line and pixel bytes.                                           *)
(***************************************************************************)
RECURSIVE Dec(_)
Dec(n) ==
    IF n < 0 THEN <<45>> \o Dec(0 - n)
    ELSE IF n < 10 THEN <<48 + n>>
    ELSE Dec(n \div 10) \o <<48 + (n % 10)>>

SizeLine(w, h) == Dec(w) \o <<32>> \o Dec(h) \o <<10>>

\* Pixel values around the default threshold, as (background, marked pixel).
ValuePairs == {<<255, 0>>, <<0, 255>>, <<128, 127>>, <<127, 128>>}
Thresholds == {1, DEFAULT_THRESHOLD, 255}
NoMark == <<-1, -1>>

\* The pixel at (x, y): the first channel follows the pattern, the second is
\* its complement and the third numbers the pixel.
PatternPixel(pat, w, x, y) ==
    LET r == IF pat.mark = <<x, y>> THEN pat.fg ELSE pat.bg
    IN  <<r, 255 - r, 1 + x + w * y>>

PatternBytes(pat, w, h) ==
    [i \in 1..(3 * w * h) |->
        PatternPixel(pat, w, ((i - 1) \div 3) % w, ((i - 1) \div 3) \div w)[((i - 1) % 3) + 1]]

Patterns(w, h) ==
    {[bg |-> v[1], fg |-> v[2], mark |-> m] :
        v \in ValuePairs, m \in ((0..(w - 1)) \X (0..(h - 1))) \cup {NoMark}}

Plain == [bg |-> 0, fg |-> 0, mark |-> NoMark]

Case(magic, size, depth, pixels, kind, w, h) ==
    [magic |-> magic, size |-> size, depth |-> depth, pixels |-> pixels,
     sizeKind |-> kind, w |-> w, h |-> h]

Dims == (1..MaxW) \X (1..MaxH)

\* Well-formed buffers: every pattern at every size.
GoodCases ==
    UNION {{Case(PPM_MAGIC, SizeLine(d[1], d[2]), PPM_DEPTH, PatternBytes(pat, d[1], d[2]),
                 "positive", d[1], d[2]) : pat \in Patterns(d[1], d[2])} : d \in Dims}

\* Buffers that end before width*height*3 pixel bytes.
TruncatedCases ==
    UNION {{Case(PPM_MAGIC, SizeLine(d[1], d[2]), PPM_DEPTH,
                 SubSeq(PatternBytes(Plain, d[1], d[2]), 1, n),
                 "positive", d[1], d[2]) : n \in 0..(3 * d[1] * d[2] - 1)} : d \in Dims}

\* Buffers with bytes after the pixel data.
ExtraCases ==
    {Case(PPM_MAGIC, SizeLine(d[1], d[2]), PPM_DEPTH,
          PatternBytes(Plain, d[1], d[2]) \o <<9, 9>>, "positive", d[1], d[2]) : d \in Dims}

MagicLines == {PPM_MAGIC, <<80, 53, 10>>, <<112, 54, 10>>, <<80, 54, 32, 10>>, <<80, 54>>}
DepthLines == {PPM_DEPTH, <<50, 53, 54, 10>>, <<54, 53, 53, 51, 53, 10>>,
               <<50, 53, 53, 32, 10>>, <<50, 53, 53>>}

\* Size lines, each with what it is and the width and height it states.
SizeLines ==
    { [line |-> <<50, 32, 49, 10>>,         kind |-> "positive",   w |-> 2,  h |-> 1],   \* "2 1"
      [line |-> <<50, 32, 49, 32, 10>>,     kind |-> "positive",   w |-> 2,  h |-> 1],   \* "2 1 "
      [line |-> <<43, 50, 32, 49, 10>>,     kind |-> "positive",   w |-> 2,  h |-> 1],   \* "+2 1"
      [line |-> <<48, 95, 50, 32, 49, 10>>, kind |-> "underscore", w |-> 2,  h |-> 1],   \* "0_2 1"
      [line |-> <<50, 95, 32, 49, 10>>,     kind |-> "nonnumeric", w |-> 0,  h |-> 0],   \* "2_ 1"
      [line |-> <<48, 32, 48, 10>>,         kind |-> "zero",       w |-> 0,  h |-> 0],   \* "0 0"
      [line |-> <<48, 32, 50, 10>>,         kind |-> "zero",       w |-> 0,  h |-> 2],   \* "0 2"
      [line |-> <<50, 32, 48, 10>>,         kind |-> "zero",       w |-> 2,  h |-> 0],   \* "2 0"
      [line |-> <<45, 49, 32, 50, 10>>,     kind |-> "negative",   w |-> -1, h |-> 2],   \* "-1 2"
      [line |-> <<50, 32, 45, 49, 10>>,     kind |-> "negative",   w |-> 2,  h |-> -1],  \* "2 -1"
      [line |-> <<45, 50, 32, 45, 49, 10>>, kind |-> "negative",   w |-> -2, h |-> -1],  \* "-2 -1"
      [line |-> <<50, 10>>,                 kind |-> "fewer",      w |-> 0,  h |-> 0],   \* "2"
      [line |-> <<10>>,                     kind |-> "fewer",      w |-> 0,  h |-> 0],   \* ""
      [line |-> <<49, 32, 50, 32, 51, 10>>, kind |-> "more",       w |-> 0,  h |-> 0],   \* "1 2 3"
      [line |-> <<97, 32, 49, 10>>,         kind |-> "nonnumeric", w |-> 0,  h |-> 0],   \* "a 1"
      [line |-> <<49, 32, 120, 10>>,        kind |-> "nonnumeric", w |-> 0,  h |-> 0],   \* "1 x"
      [line |-> <<50, 32, 32, 49, 10>>,     kind |-> "twospaces",  w |-> 2,  h |-> 1],   \* "2  1"
      [line |-> <<50, 9, 49, 10>>,          kind |-> "tab",        w |-> 2,  h |-> 1] }  \* "2\t1"

\* Every first line with every size line and depth line, without pixel bytes
\* and with the six bytes of a 2x1 image.
HeaderCases ==
    {Case(c[1], c[2].line, c[3], c[4], c[2].kind, c[2].w, c[2].h) :
        c \in MagicLines \X SizeLines \X DepthLines \X {<<>>, PatternBytes(Plain, 2, 1)}}

Cases == GoodCases \cup TruncatedCases \cup ExtraCases \cup HeaderCases

Bytes(c) == c.magic \o c.size \o c.depth \o c.pixels

NoProbe == [called |-> FALSE, pos |-> <<0, 0>>, ok |-> FALSE, val |-> <<>>]
NoShown == [called |-> FALSE, threshold |-> 0, raised |-> "none", lines |-> <<>>]
Coords == ((0 - MaxW - 1)..(MaxW + 1)) \X ((0 - MaxH - 1)..(MaxH + 1))

(***************************************************************************)
(* The script: constants, URLs and the libraries it calls.                 *)
(***************************************************************************)
\* A URL string, by its parts: scheme://userinfo@host/path.
Url(scheme, userinfo, host, path) ==
    [scheme |-> scheme, userinfo |-> userinfo, host |-> host, path |-> path]

EmptyUrl == Url("", "", "", "")                                   \* ''
DEFAULT_GLOBAL_FAUCET == Url("https", "", "signetfaucet.com", "/claim")
DEFAULT_GLOBAL_CAPTCHA == Url("https", "", "signetfaucet.com", "/captcha")
GLOBAL_FIRST_BLOCK_HASH == "00000086d6b2636cb2a392d45edc4ec544a10024d30141c9adf4bfd9de533b53"
ALLOWED_DOMAINS == {"trusted-domain.com", "another-trusted-domain.com"}

\* str.lower() on the strings the inputs are made of.
Lower(s) ==
    CASE s = "HTTPS" -> "https"
      [] s = "SIGNETFAUCET.COM" -> "signetfaucet.com"
      [] s = "/CLAIM" -> "/claim"
      [] s = "Trusted-Domain.COM" -> "trusted-domain.com"
      [] OTHER -> s

LowerUrl(u) == Url(Lower(u.scheme), Lower(u.userinfo), Lower(u.host), Lower(u.path))

\* urlparse(url).hostname: the host in lower case, None without a scheme or host.
NoHostname == "None"
Hostname(u) == IF u.scheme = "" \/ u.host = "" THEN NoHostname ELSE Lower(u.host)

\* validators.domain(): a dotted name with an alphabetic top-level label.
validators_domain(h) ==
    h \in {"signetfaucet.com", "trusted-domain.com", "another-trusted-domain.com",
           "sub.trusted-domain.com", "evil.example"}

\* The validation without the allow-list test.
is_valid_faucet_url_DomainOnly(url) == validators_domain(Hostname(url))

is_valid_faucet_url(url) ==
    IF ~validators_domain(Hostname(url)) THEN FALSE
    ELSE IF Hostname(url) \notin ALLOWED_DOMAINS THEN FALSE
    ELSE TRUE

FaucetUrls ==
    { DEFAULT_GLOBAL_FAUCET,
      Url("HTTPS", "", "SIGNETFAUCET.COM", "/CLAIM"),
      Url("https", "", "signetfaucet.com", "/other"),
      Url("https", "", "trusted-domain.com", "/claim"),
      Url("https", "", "Trusted-Domain.COM", "/claim"),
      Url("https", "", "another-trusted-domain.com", "/claim"),
      Url("https", "", "sub.trusted-domain.com", "/claim"),
      Url("https", "", "evil.example", "/claim"),
      Url("https", "trusted-domain.com", "evil.example", "/claim"),
      Url("http", "", "127.0.0.1", "/claim"),
      Url("https", "", "localhost", "/claim"),
      Url("", "", "", "trusted-domain.com/claim") }

CaptchaUrls == {EmptyUrl, DEFAULT_GLOBAL_CAPTCHA, Url("https", "", "evil.example", "/captcha")}

ArgSets ==
    [faucet : FaucetUrls, captcha : CaptchaUrls, addr : {"", "tb1qgiven"},
     password : {"", "pw"}, amount : {"0.001", "0.1"}]

\* What running the wallet command can do.
WalletOutcomes(rpc) ==
    {[kind |-> "FileNotFoundError", out |-> ""], [kind |-> "CalledProcessError", out |-> ""]}
    \cup {[kind |-> "ok", out |-> o] :
            o \in IF rpc = "getblockhash" THEN {GLOBAL_FIRST_BLOCK_HASH, "custom-chain-hash"}
                  ELSE {"tb1qnew"}}

\* bitcoin_cli(): the output, or SystemExit with one of two messages.
bitcoin_cli(outcome) ==
    CASE outcome.kind = "FileNotFoundError" ->
            [raised |-> "SystemExit", message |-> "binary could not be found", value |-> ""]
      [] outcome.kind = "CalledProcessError" ->
            [raised |-> "SystemExit", message |-> "Error while calling", value |-> ""]
      [] OTHER -> [raised |-> "none", message |-> "", value |-> outcome.out]

\* An exit that reports success whatever happened.
ExitStatus_Zero(exc) == 0

\* The exit status Python ends with: 0 at the end of the script, 1 for
\* SystemExit with a message and for an exception nobody caught.
ExitStatus(exc) == IF exc = "none" THEN 0 ELSE 1

\* requests.Response.__bool__: ok, that is raise_for_status() does not raise;
\* it raises for 400 <= status < 600.
ResponseOk(r) == ~(r.status >= 400 /\ r.status < 600)

Statuses == {101, 200, 204, 304, 399, 400, 404, 429, 500, 599, 600}
Texts == {"payout sent", "faucet says no"}
NoResponse == [status |-> 0, text |-> ""]

\* One print(): what is printed, with the status code, the text and, for a
\* line of the captcha image, the codepoints it shows.
Printed(kind, code, text) == [kind |-> kind, code |-> code, text |-> text, line |-> <<>>]
PrintedLines(lines) ==
    [i \in 1..Len(lines) |-> [kind |-> "captcha_image", code |-> 0, text |-> "", line |-> lines[i]]]

\* What the conversion hands to PPMImage: Pillow writes the P6 header and all
\* the pixel bytes of the image (150x50 for the captcha, small images here).
ConvertedImages ==
    {Bytes(Case(PPM_MAGIC, SizeLine(c[1][1], c[1][2]), PPM_DEPTH,
                PatternBytes(c[2], c[1][1], c[1][2]), "positive", c[1][1], c[1][2])) :
        c \in {<<2, 4>>, <<3, 2>>} \X {Plain, [bg |-> 255, fg |-> 0, mark |-> <<1, 1>>]}}

\* Lines 190-199: what is printed for a response.
Report(r) ==
    IF ResponseOk(r) THEN <<Printed("body", 0, r.text)>>
    ELSE IF r.status = 404 THEN <<Printed("not_found", 0, "")>>
    ELSE IF r.status = 429 THEN <<Printed("rate_limited", 0, "")>>
    ELSE <<Printed("error_code", r.status, r.text), Printed("check_arguments", 0, "")>>

Call(kind, url, arg) == [kind |-> kind, url |-> url, arg |-> arg]
NoCaptchaField == "<absent>"
NoData == [address |-> "", password |-> "", amount |-> "", captcha |-> NoCaptchaField]

(***************************************************************************)
(* The script, statement by statement.                                     *)
(***************************************************************************)
InitRun ==
    /\ pc = "faucet_check"
    /\ args \in ArgSets
    /\ data = NoData
    /\ calls = <<>>
    /\ blockhash = ""
    /\ res = NoResponse
    /\ stdout = <<>>
    /\ raised = "none"
    /\ stderr = ""
    /\ exitcode = -1

\* The image variables while the script is modelled.
ImageIdle ==
    /\ ipc = "idle"
    /\ tc = Case(<<>>, <<>>, <<>>, <<>>, "none", 0, 0)
    /\ buf = <<>>
    /\ img = NoImage
    /\ probe = NoProbe
    /\ shown = NoShown

\* An exception ends the script: the message goes to stderr.
Terminate(exc, message) ==
    /\ pc' = "done"
    /\ raised' = exc
    /\ stderr' = message
    /\ exitcode' = ExitStatus(exc)

Continue(next) ==
    /\ pc' = next
    /\ UNCHANGED <<raised, stderr, exitcode>>

\* The comparison of line 127 left out.
IsGlobalSignet_Always(hash) == TRUE

\* Line 127: the chain is the global signet.
IsGlobalSignet(hash) == hash = GLOBAL_FIRST_BLOCK_HASH

\* Lines 124-128: the global faucet is asked for; the wallet names the chain.
CheckGlobalFaucet ==
    /\ pc = "faucet_check"
    /\ LowerUrl(args.faucet) = DEFAULT_GLOBAL_FAUCET
    /\ calls' = Append(calls, Call("wallet", EmptyUrl, "getblockhash 1"))
    /\ \E o \in WalletOutcomes("getblockhash") :
         LET r == bitcoin_cli(o)
         IN  IF r.raised # "none"
             THEN Terminate(r.raised, r.message) /\ UNCHANGED blockhash
             ELSE /\ blockhash' = r.value
                  /\ IF ~IsGlobalSignet(r.value)
                     THEN Terminate("SystemExit", "The global faucet cannot be used with a custom Signet network")
                     ELSE Continue("address")
    /\ UNCHANGED <<args, data, res, stdout>>
    /\ UNCHANGED imgvars

\* Lines 129-132: a custom faucet asks for no captcha unless one is named.
CustomFaucet ==
    /\ pc = "faucet_check"
    /\ LowerUrl(args.faucet) # DEFAULT_GLOBAL_FAUCET
    /\ args' = [args EXCEPT !.captcha = IF @ = DEFAULT_GLOBAL_CAPTCHA THEN EmptyUrl ELSE @]
    /\ Continue("address")
    /\ UNCHANGED <<data, calls, blockhash, res, stdout>>
    /\ UNCHANGED imgvars

\* Line 138: the form.
Form(a) == [address |-> a.addr, password |-> a.password, amount |-> a.amount,
            captcha |-> NoCaptchaField]

\* Lines 134-138, no address given: the wallet makes one.
GetNewAddress ==
    /\ pc = "address"
    /\ args.addr = ""
    /\ calls' = Append(calls, Call("wallet", EmptyUrl, "getnewaddress faucet bech32"))
    /\ \E o \in WalletOutcomes("getnewaddress") :
         LET r == bitcoin_cli(o)
         IN  IF r.raised # "none"
             THEN Terminate(r.raised, r.message) /\ UNCHANGED <<args, data>>
             ELSE /\ args' = [args EXCEPT !.addr = r.value]
                  /\ data' = Form(args')
                  /\ Continue("captcha")
    /\ UNCHANGED <<blockhash, res, stdout>>
    /\ UNCHANGED imgvars

\* Lines 134-138, an address was given.
KeepAddress ==
    /\ pc = "address"
    /\ args.addr # ""
    /\ data' = Form(args)
    /\ Continue("captcha")
    /\ UNCHANGED <<args, calls, blockhash, res, stdout>>
    /\ UNCHANGED imgvars

\* Line 144, no captcha URL.
NoCaptcha ==
    /\ pc = "captcha"
    /\ args.captcha = EmptyUrl
    /\ Continue("submit")
    /\ UNCHANGED <<args, data, calls, blockhash, res, stdout>>
    /\ UNCHANGED imgvars

\* Lines 144-149: the captcha is fetched.
FetchCaptcha ==
    /\ pc = "captcha"
    /\ args.captcha # EmptyUrl
    /\ calls' = Append(calls, Call("GET", args.captcha, ""))
    /\ \E o \in {"ok", "RequestException"} :
         IF o = "RequestException"
         THEN Terminate("SystemExit", "Unexpected error when contacting faucet")
         ELSE Continue("captcha_size")
    /\ UNCHANGED <<args, data, blockhash, res, stdout>>
    /\ UNCHANGED imgvars

\* Lines 151-154: the payload is parsed as XML and its size attributes checked.
CheckCaptchaSize ==
    /\ pc = "captcha_size"
    /\ \E content \in {"not xml", "150x50", "100x50", "no size"} :
         IF content = "not xml" THEN Terminate("ParseError", "Traceback")
         ELSE IF content # "150x50"
              THEN Terminate("SystemExit", "Captcha size doesn't match expected dimensions 150x50")
              ELSE Continue("captcha_convert")
    /\ UNCHANGED <<args, data, calls, blockhash, res, stdout>>
    /\ UNCHANGED imgvars

\* Lines 156-173: the SVG is converted, the PPM decoded and the image printed.
ConvertCaptcha ==
    /\ pc = "captcha_convert"
    /\ \/ Terminate("SystemExit", "The binary could not be found") /\ UNCHANGED stdout
       \/ Terminate("Exception", "Traceback") /\ UNCHANGED stdout
       \/ \E ppm \in ConvertedImages :
            LET image == PPMImage(ppm)
                out == print_image(image, DEFAULT_THRESHOLD)
            IN  IF image.state # "ok"
                THEN Terminate(image.state, "Traceback") /\ UNCHANGED stdout
                ELSE IF out.raised # "none"
                     THEN /\ Terminate(out.raised, "Traceback")
                          /\ stdout' = stdout \o PrintedLines(out.lines)
                     ELSE /\ stdout' = stdout \o PrintedLines(out.lines)
                                              \o <<Printed("captcha_url", 0, "")>>
                          /\ Continue("captcha_prompt")
    /\ UNCHANGED <<args, data, calls, blockhash, res>>
    /\ UNCHANGED imgvars

\* Line 174: the operator answers, or standard input ends.
PromptCaptcha ==
    /\ pc = "captcha_prompt"
    /\ \E o \in {"answer", "EOFError"} :
         IF o = "EOFError"
         THEN Terminate("EOFError", "Traceback") /\ UNCHANGED data
         ELSE data' = [data EXCEPT !.captcha = "answer"] /\ Continue("submit")
    /\ UNCHANGED <<args, calls, blockhash, res, stdout>>
    /\ UNCHANGED imgvars

\* Lines 176-187, the URL is refused: ValueError, caught and turned into SystemExit.
RejectFaucet ==
    /\ pc = "submit"
    /\ ~is_valid_faucet_url(args.faucet)
    /\ Terminate("SystemExit", "Unexpected error when contacting faucet")
    /\ UNCHANGED <<args, data, calls, blockhash, res, stdout>>
    /\ UNCHANGED imgvars

\* Lines 176-187, the URL is accepted: the claim is posted.
PostClaim ==
    /\ pc = "submit"
    /\ is_valid_faucet_url(args.faucet)
    /\ calls' = Append(calls, Call("POST", args.faucet, "form"))
    /\ \/ Terminate("SystemExit", "Unexpected error when contacting faucet") /\ UNCHANGED res
       \/ \E st \in Statuses, tx \in Texts :
            res' = [status |-> st, text |-> tx] /\ Continue("report")
    /\ UNCHANGED <<args, data, blockhash, stdout>>
    /\ UNCHANGED imgvars

\* Lines 189-199: the response is reported and the script ends.
ReportStatus ==
    /\ pc = "report"
    /\ stdout' = stdout \o Report(res)
    /\ pc' = "done"
    /\ exitcode' = ExitStatus("none")
    /\ UNCHANGED <<args, data, calls, blockhash, res, raised, stderr>>
    /\ UNCHANGED imgvars

Init == InitRun /\ ImageIdle

Next ==
    \/ CheckGlobalFaucet
    \/ CustomFaucet
    \/ GetNewAddress
    \/ KeepAddress
    \/ NoCaptcha
    \/ FetchCaptcha
    \/ CheckCaptchaSize
    \/ ConvertCaptcha
    \/ PromptCaptcha
    \/ RejectFaucet
    \/ PostClaim
    \/ ReportStatus

Spec == Init /\ [][Next]_vars

(***************************************************************************)
(* The image functions on their own: a buffer is decoded, and the image is *)
(* then looked up at one position or printed with one threshold.           *)
(***************************************************************************)
\* The script variables while the image functions are modelled.
RunIdle ==
    /\ pc = "idle"
    /\ args = [faucet |-> DEFAULT_GLOBAL_FAUCET, captcha |-> DEFAULT_GLOBAL_CAPTCHA,
               addr |-> "", password |-> "", amount |-> "0.001"]
    /\ data = NoData
    /\ calls = <<>>
    /\ blockhash = ""
    /\ res = NoResponse
    /\ stdout = <<>>
    /\ raised = "none"
    /\ stderr = ""
    /\ exitcode = -1

InitImage ==
    /\ RunIdle
    /\ ipc = "raw"
    /\ tc \in Cases
    /\ buf = Bytes(tc)
    /\ img = NoImage
    /\ probe = NoProbe
    /\ shown = NoShown

\* img = PPMImage(f)
Decode ==
    /\ ipc = "raw"
    /\ img' = PPMImage(buf)
    /\ ipc' = "decoded"
    /\ UNCHANGED <<tc, buf, probe, shown>>
    /\ UNCHANGED runvars

\* img.getpixel(pos)
GetPixel ==
    /\ ipc = "decoded"
    /\ img.state = "ok"
    /\ \E pos \in Coords :
         LET r == getpixel(img, pos)
         IN  probe' = [called |-> TRUE, pos |-> pos, ok |-> r.ok, val |-> r.val]
    /\ ipc' = "used"
    /\ UNCHANGED <<tc, buf, img, shown>>
    /\ UNCHANGED runvars

\* print_image(img, threshold)
Render ==
    /\ ipc = "decoded"
    /\ img.state = "ok"
    /\ \E t \in Thresholds :
         LET r == print_image(img, t)
         IN  shown' = [called |-> TRUE, threshold |-> t, raised |-> r.raised, lines |-> r.lines]
    /\ ipc' = "used"
    /\ UNCHANGED <<tc, buf, img, probe>>
    /\ UNCHANGED runvars

NextImage ==
    \/ Decode
    \/ GetPixel
    \/ Render

SpecImage == InitImage /\ [][NextImage]_vars

(***************************************************************************)
(* Properties of the script.                                               *)
(***************************************************************************)
IsHttp(c) == c.kind \in {"GET", "POST"}
IsPost(c) == c.kind = "POST"
HttpCalls == SelectSeq(calls, IsHttp)
Posts == SelectSeq(calls, IsPost)
GetBlockHashCall == Call("wallet", EmptyUrl, "getblockhash 1")

\* The claim URL names a host of the allow-list.
FaucetHostAllowed == Hostname(args.faucet) \in ALLOWED_DOMAINS

\* C1: when the host of the claim URL is not in the allow-list, the run makes
\* no HTTP request at all: neither the captcha GET nor the claim POST.
C1_NoHttpForForeignHost ==
    ~FaucetHostAllowed => HttpCalls = <<>>

\* A claim response with a status outside 200..399.
RemoteError == res # NoResponse /\ ~(res.status >= 200 /\ res.status <= 399)
Failed == raised # "none" \/ RemoteError
IsReport(p) == p.kind \notin {"captcha_image", "captcha_url"}
Reported == SelectSeq(stdout, IsReport)

\* C2 as stated: every failure, a non-success status of the claim endpoint
\* included, ends the process with a non-zero exit status and a message.
C2_EveryFailureExitsNonZero ==
    (pc = "done" /\ Failed) => (exitcode # 0 /\ (stderr # "" \/ Reported # <<>>))

\* C2 as amended: an exception ends the process at once with a non-zero exit
\* status and a message; a non-success status of the claim endpoint is
\* reported on standard output and the process ends with exit status 0; and
\* after a failure no further external call is made.
C2_FailuresAreTerminal ==
    [][ /\ (raised' # "none") => (pc' = "done" /\ exitcode' # 0 /\ stderr' # "")
        /\ (pc' = "done" /\ raised' = "none") => exitcode' = 0
        /\ (pc' = "done" /\ raised' = "none" /\ RemoteError') => Reported' # <<>>
        /\ Failed => (calls' = calls /\ pc' = "done") ]_vars

C2_Witness ==
    pc = "done" /\ raised = "SystemExit" /\ exitcode = 1 /\ Len(calls) >= 2

\* C4: with the default faucet and a block hash at height 1 that is not the
\* known one, the run has ended with the wallet's getblockhash as its only
\* external call (no captcha GET, no claim POST); and whenever the default
\* faucet is used the first external call is getblockhash.
C4_CustomChainAborts ==
    LowerUrl(args.faucet) = DEFAULT_GLOBAL_FAUCET =>
        /\ (calls # <<>> => calls[1] = GetBlockHashCall)
        /\ (blockhash \notin {"", GLOBAL_FIRST_BLOCK_HASH} =>
                pc = "done" /\ raised = "SystemExit" /\ calls = <<GetBlockHashCall>>)

C4_Witness ==
    /\ LowerUrl(args.faucet) = DEFAULT_GLOBAL_FAUCET
    /\ blockhash = "custom-chain-hash"
    /\ pc = "done"

\* What C6 says is printed for a response: by the status code alone.
ClaimedReport(r) ==
    IF r.status >= 200 /\ r.status <= 399 THEN <<Printed("body", 0, r.text)>>
    ELSE IF r.status = 404 THEN <<Printed("not_found", 0, "")>>
    ELSE IF r.status = 429 THEN <<Printed("rate_limited", 0, "")>>
    ELSE <<Printed("error_code", r.status, r.text), Printed("check_arguments", 0, "")>>

\* C6: once the claim POST has returned a response, what is printed is the
\* body for a status in 200..399, the "not found" message for 404, the "rate
\* limited" message for 429 and the generic error with status and body for
\* every other status.
C6_OutcomeByStatus ==
    (pc = "done" /\ res # NoResponse) => Reported = ClaimedReport(res)

Decoded == ipc # "raw" /\ img.state = "ok"
Width == img.size[1]
Height == img.size[2]

\* Every pixel of the grid has three components.
AllTriples == \A y \in 1..Len(img.grid) : \A x \in 1..Len(img.grid[y]) : Len(img.grid[y][x]) = 3

\* The buffer states a positive size and ends before width*height*3 pixel bytes.
Truncated == tc.sizeKind = "positive" /\ Len(tc.pixels) < 3 * tc.w * tc.h

\* C3: a buffer with a wrong first line, a wrong depth line or too few pixel
\* bytes is never decoded, and no decoded grid holds a pixel of fewer than
\* three components.
C3_BadBufferNeverDecodes ==
    ipc # "raw" =>
        /\ (tc.magic # PPM_MAGIC \/ tc.depth # PPM_DEPTH \/ Truncated) => img.state = "ValueError"
        /\ img.state = "ok" => AllTriples

\* C8: a size line that is not two positive integers (fewer or more tokens,
\* a token that is no number, a width or height of zero or below) is never
\* decoded.
C8_BadSizeNeverDecodes ==
    (ipc # "raw" /\ tc.sizeKind \in {"fewer", "more", "nonnumeric", "zero", "negative"}) =>
        (img.state = "ValueError" /\ img.grid = NoGrid)

\* The bytes of pixel (x, y) in the pixel data of the buffer.
BufferPixel(x, y) ==
    SubSeq(tc.pixels, 3 * (Width * y + x) + 1, Min(3 * (Width * y + x) + 3, Len(tc.pixels)))

InGrid(x, y) == x >= 0 /\ x < Width /\ y >= 0 /\ y < Height

\* The buffer holds all the pixel bytes its positive size asks for.
FullGrid == Decoded /\ Width > 0 /\ Height > 0 /\ Len(tc.pixels) >= 3 * Width * Height

\* C7 as stated: getpixel returns the triple of an in-range position and
\* fails with IndexError for every other position, negative ones included.
C7_OutOfRangeRaises ==
    (probe.called /\ FullGrid) =>
        IF InGrid(probe.pos[1], probe.pos[2])
        THEN probe.ok /\ probe.val = BufferPixel(probe.pos[1], probe.pos[2])
        ELSE ~probe.ok

\* C7 as amended: for -width <= x < width and -height <= y < height getpixel
\* returns the pixel at (x mod width, y mod height), a negative coordinate
\* counting from the far edge; it fails with IndexError exactly when
\* x >= width, x < -width, y >= height or y < -height.
C7_GetPixelWraps ==
    (probe.called /\ Decoded) =>
        LET x == probe.pos[1]
            y == probe.pos[2]
        IN  IF x < Width /\ x >= 0 - Width /\ y < Height /\ y >= 0 - Height
            THEN probe.ok /\ probe.val = BufferPixel(x % Width, y % Height)
            ELSE ~probe.ok

C7_Witness ==
    /\ probe.called /\ FullGrid /\ Width >= 2 /\ Height >= 2
    /\ probe.pos[1] < 0 /\ probe.pos[2] >= 0
    /\ probe.ok /\ Len(probe.val) = 3

\* The standard braille dot of sub-pixel (x, y) of a 2x4 cell, as a bit value:
\* dots 1, 2, 3, 7 down the left column, dots 4, 5, 6, 8 down the right.
RECURSIVE Pow2(_)
Pow2(n) == IF n = 0 THEN 1 ELSE 2 * Pow2(n - 1)
DotBit(x, y) == Pow2(IF y < 3 THEN y + 3 * x ELSE 6 + x)

RECURSIVE SumOver(_, _)
SumOver(S, f) ==
    IF S = {} THEN 0
    ELSE LET e == CHOOSE e \in S : TRUE IN f[e] + SumOver(S \ {e}, f)

SubPixels == (0..1) \X (0..3)

\* The dots of block (xb, yb) whose sub-pixel lies inside the grid.
InsideMask(xb, yb) ==
    SumOver({p \in SubPixels : InGrid(2 * xb + p[1], 4 * yb + p[2])},
            [p \in SubPixels |-> DotBit(p[1], p[2])])

\* The smallest n with n * b >= a, for a >= 0.
Ceil(a, b) == CHOOSE n \in 0..a : n * b >= a /\ (n - 1) * b < a

\* Every pixel of the printed image is darker than the threshold.
AllBelow ==
    /\ shown.called /\ FullGrid /\ AllTriples
    /\ \A y \in 1..Height : \A x \in 1..Width : img.grid[y][x][1] < shown.threshold

\* The codepoints printed.
Codepoints ==
    UNION {{shown.lines[i][j] : j \in 1..Len(shown.lines[i])} : i \in 1..Len(shown.lines)}

\* C5 as stated: when every pixel is below the threshold, every codepoint
\* printed is 0x28FF, whatever the width and height.
C5_AllDarkIsAllDots ==
    AllBelow => \A c \in Codepoints : c = 10495

\* C5 as amended: when every pixel is below the threshold, the codepoint of a
\* block is 0x2800 plus the dots of its sub-pixels that lie inside the grid:
\* 0x28FF for every block wholly inside the grid, and another codepoint for a
\* block of the last column or row that reaches past the grid.
C5_AllDarkInsideDots ==
    AllBelow =>
        /\ shown.raised = "none"
        /\ Len(shown.lines) = Ceil(Height, 4)
        /\ \A yb \in 0..(Len(shown.lines) - 1) :
             /\ Len(shown.lines[yb + 1]) = Ceil(Width, 2)
             /\ \A xb \in 0..(Len(shown.lines[yb + 1]) - 1) :
                  LET c == shown.lines[yb + 1][xb + 1]
                      whole == 2 * xb + 1 < Width /\ 4 * yb + 3 < Height
                  IN  /\ c = 10240 + InsideMask(xb, yb)
                      /\ (c = 10495) <=> whole

C5_Witness ==
    /\ AllBelow /\ Width = 3 /\ Height = 5
    /\ shown.threshold = DEFAULT_THRESHOLD
    /\ Len(shown.lines) = 2

\* Bit b (a power of two) of mask m is set.
BitSet(m, b) == (m \div b) % 2 = 1

\* The image is a grid of the data model: no negative size, every pixel a triple.
IsPixelGrid == Decoded /\ Width >= 0 /\ Height >= 0 /\ AllTriples
                 /\ Len(tc.pixels) >= 3 * Width * Height

\* C9: print_image prints ceil(h/4) lines of ceil(w/2) characters; the
\* character of block (xb, yb) is 0x2800 | mask, where bit BIT_PER_PIXEL[y][x]
\* of mask is set exactly when pixel (2*xb + x, 4*yb + y) is inside the grid
\* and its first channel is below the threshold; no exception is raised.
C9_RenderLayout ==
    (shown.called /\ IsPixelGrid) =>
        /\ shown.raised = "none"
        /\ Len(shown.lines) = Ceil(Height, 4)
        /\ \A yb \in 0..(Len(shown.lines) - 1) :
             /\ Len(shown.lines[yb + 1]) = Ceil(Width, 2)
             /\ \A xb \in 0..(Len(shown.lines[yb + 1]) - 1) :
                  LET mask == shown.lines[yb + 1][xb + 1] - 10240
                  IN  /\ mask >= 0 /\ mask < 256
                      /\ \A p \in SubPixels :
                           BitSet(mask, BIT_PER_PIXEL[p[2] + 1][p[1] + 1]) <=>
                              /\ InGrid(2 * xb + p[1], 4 * yb + p[2])
                              /\ BufferPixel(2 * xb + p[1], 4 * yb + p[2])[1] < shown.threshold

C9_Witness ==
    /\ shown.called /\ IsPixelGrid /\ Width = 3 /\ Height = 5
    /\ Len(shown.lines) = 2 /\ Len(shown.lines[2]) = 2
    /\ shown.lines[1][1] \notin {10240, 10495}
    /\ shown.lines[2][2] # 10240

====
